---- MODULE Spec2Model ----
(***************************************************************************)
(* toko-warga: the checkout handler POST /api/orders and the tables it     *)
(* reads and writes (products, orders, order_items), run by concurrent     *)
(* requests against one PostgreSQL database.                               *)
(*                                                                         *)
(* The repository holds the handler twice: src/src/index.js and the copy   *)
(* pasted into src/drizzle.config.js.  They differ in how the price is     *)
(* read and in the failure message; `variant` says which one serves.       *)
(*                                                                         *)
(* db.transaction() is BEGIN ... COMMIT at PostgreSQL's default isolation  *)
(* (read committed): a statement sees the rows committed before it starts  *)
(* plus the transaction's own writes; UPDATE takes a row lock that is held *)
(* until COMMIT or ROLLBACK; a plain SELECT takes none.                    *)
(*                                                                         *)
(* Money: a numeric(12,2) value is modelled by its amount in cents.        *)
(***************************************************************************)
EXTENDS Integers, Sequences, FiniteSets

(* ---------------- bounds and input domains ---------------- *)

\* the requests served, numbered in the order they arrive
NumCalls == 2
Calls == 1..NumCalls

\* ids of the product rows in the table, and one id with no row
ProductIds == {1, 2}

\* an item of a request body; price is a field the client may add (0: absent)
Line(p, q, cp) == [productId |-> p, quantity |-> q, price |-> cp]

Variants == {"index.js", "drizzle.config.js"}

\* the items arrays of the request bodies served; no product has id 3
Requests ==
    { <<>>,
      <<Line(1, 3, 0)>>,
      <<Line(1, 3, 1)>>,
      <<Line(2, 1, 0)>>,
      <<Line(1, 0, 0)>>,
      <<Line(1, -1, 0)>>,
      <<Line(1, 3, 0), Line(1, 1, 0)>>,
      <<Line(1, 3, 0), Line(1, 3, 0)>>,
      <<Line(1, 1, 0), Line(2, 1, 0)>>,
      <<Line(2, 1, 0), Line(1, 1, 0)>>,
      <<Line(1, 1, 0), Line(3, 1, 0)>> }

\* the requests to POST /api/register served, numbered in the order they arrive
NumRegs == 2
Regs == 1..NumRegs

\* the requests to POST /api/products that reach the image storage
MaxUploads == 1

\* request bodies of POST /api/login: username and password
Credentials == {<<"admin", "admin123">>, <<"admin", "wrong">>,
                <<"siti", "siti123">>, <<"budi", "budi123">>}

\* request bodies of POST /api/register
Registrations == {<<"admin", "budi123">>, <<"budi", "budi123">>}

\* the requests a spec that also runs the other endpoints places as orders
ShopRequests ==
    { <<Line(1, 3, 1)>>,
      <<Line(1, 1, 0), Line(2, 1, 0)>>,
      <<Line(2, 1, 0), Line(1, 1, 0)>> }

(* ---------------- state ---------------- *)

VARIABLES
    variant,     \* which copy of the handler serves
    products,    \* committed rows of table products, by id
    stock0,      \* history: the stock each product started with
    orders,      \* committed rows of table orders
    orderItems,  \* committed rows of table order_items, in insertion order
    orderSeq,    \* last value of the serial orders.id (never rolled back)
    calls,       \* per request: the handler's locals and its open transaction
    users,       \* rows of table users
    userSeq,     \* last value of the serial users.id
    tokens,      \* the tokens POST /api/login has issued
    login,       \* the last answer of POST /api/login
    regs,        \* per request to POST /api/register: the handler's locals
    productSeq,  \* last value of the serial products.id
    images,      \* number of files in the storage bucket 'products'
    upload,      \* the last request to POST /api/products and its answer
    listing      \* the last answer of GET /api/products

authVars == <<users, userSeq, tokens, login, regs, productSeq, images, upload, listing>>

vars == <<variant, products, stock0, orders, orderItems, orderSeq, calls, authVars>>

(* ---------------- JavaScript and SQL values ---------------- *)

\* a JavaScript number holding an amount of money, or NaN
Num(n) == [nan |-> FALSE, cents |-> n]
NaN == [nan |-> TRUE, cents |-> 0]

\* a + b and a * q on JavaScript numbers: NaN is absorbing
JsAdd(a, b) == IF a.nan \/ b.nan THEN NaN ELSE Num(a.cents + b.cents)
JsMul(a, q) == IF a.nan THEN NaN ELSE Num(a.cents * q)

\* a JavaScript value that is either undefined or the string of a numeric
Undefined == [undef |-> TRUE, cents |-> 0]
NumericString(n) == [undef |-> FALSE, cents |-> n]

\* parseFloat(x): the number a numeric string spells; NaN for undefined
ParseFloat(x) == IF x.undef THEN NaN ELSE Num(x.cents)

\* x.price where x is a string: strings have no such property
PriceOfString(x) == Undefined

\* total.toString() stored into numeric(12,2): 'NaN' is a value of the type,
\* a number is kept to the cent
ToNumeric(x) == IF x.nan THEN NaN ELSE Num(x.cents)

\* JSON.stringify of a number in the response body: NaN is written as null
ToJson(x) == [null |-> x.nan, cents |-> IF x.nan THEN 0 ELSE x.cents]

(* ---------------- rows ---------------- *)

NoProduct == [found |-> FALSE, name |-> "undefined", price |-> 0, stock |-> 0]

ProductNames == [p \in ProductIds |-> IF p = 1 THEN "p1" ELSE "p2"]
\* 10.00 and 2.50: binary floating point holds them and their small multiples
\* exactly, so the handler's arithmetic is the arithmetic on cents
ProductPrices == [p \in ProductIds |-> IF p = 1 THEN 1000 ELSE 250]
ProductStocks == [p \in ProductIds |-> IF p = 1 THEN 5 ELSE 1]

NoResponse == [status |-> 0, success |-> FALSE, orderId |-> 0,
               total |-> ToJson(Num(0)), message |-> <<>>, error |-> "none"]

IdleCall == [pc |-> "idle", items |-> <<>>, i |-> 1, total |-> Num(0),
             newOrder |-> 0, product |-> NoProduct,
             wOrders |-> {}, wItems |-> <<>>, wStock |-> {},
             reads |-> <<>>, response |-> NoResponse]

(* ---------------- the transaction's view of the store ---------------- *)

\* the calls whose transaction is open
Active(c) == calls[c].pc \in {"find", "item", "stock", "commit"}

\* product rows this call's transaction has updated and not yet committed
Written(c) == {w[1] : w \in calls[c].wStock}

\* the row lock UPDATE products takes, held until COMMIT or ROLLBACK
LockedByOther(c, p) == \E d \in Calls \ {c} : Active(d) /\ p \in Written(d)

\* the read on db instead of tx: it does not see the transaction's own writes
TxReadCommittedOnly(c, p) ==
    IF p \notin DOMAIN products THEN NoProduct
    ELSE [found |-> TRUE, name |-> products[p].name, price |-> products[p].price,
          stock |-> products[p].stock]

\* tx.query.products.findFirst({where: eq(products.id, p)}) at read committed
TxRead(c, p) ==
    IF p \notin DOMAIN products THEN NoProduct
    ELSE [found |-> TRUE, name |-> products[p].name, price |-> products[p].price,
          stock |-> IF p \in Written(c)
                    THEN (CHOOSE w \in calls[c].wStock : w[1] = p)[2]
                    ELSE products[p].stock]

\* the check without the comparison of stock and quantity
StockCheckMissingOnly(product, item) == ~product.found

\* the stock check of the item loop
StockCheckFails(product, item) == ~product.found \/ product.stock < item.quantity

\* the amount computed from the price the client sent, when it sent one
ItemAmountTrustsClient(v, product, item) ==
    IF item.price # 0
    THEN JsMul(Num(item.price), item.quantity)
    ELSE JsMul(ParseFloat(NumericString(product.price)), item.quantity)

\* the amount added to total for one item
ItemAmount(v, product, item) ==
    IF v = "index.js"
    THEN JsMul(ParseFloat(PriceOfString(NumericString(product.price))), item.quantity)
    ELSE JsMul(ParseFloat(NumericString(product.price)), item.quantity)

\* the message of the Error thrown by the stock check
StockMessage(v, product) ==
    IF v = "index.js"
    THEN <<"Stok", product.name, "kurang!">>
    ELSE <<"Stok", IF product.found THEN product.name ELSE "Produk", "tidak mencukupi!">>

\* the value of SET stock = ... in the item loop
NewStock(product, item) == product.stock - item.quantity

\* the committed tables
Store == [products |-> products, orders |-> orders, orderItems |-> orderItems]

\* the rows of products after COMMIT of the stock writes w
ApplyStock(rows, w) ==
    [p \in DOMAIN rows |->
        IF \E x \in w : x[1] = p
        THEN [rows[p] EXCEPT !.stock = (CHOOSE x \in w : x[1] = p)[2]]
        ELSE rows[p]]

\* COMMIT: the transaction's writes become the committed rows
CommitStore(st, call) ==
    [products |-> ApplyStock(st.products, call.wStock),
     orders |-> st.orders \cup call.wOrders,
     orderItems |-> st.orderItems \o call.wItems]

\* the statements issued on db instead of tx: nothing to roll back
RollbackStoreAutocommit(st, call) == CommitStore(st, call)

\* ROLLBACK (db.transaction does it when the callback throws): the
\* transaction's writes are discarded
RollbackStore(st, call) == st

\* the handler's locals once it has answered
Answered(call, response) ==
    [call EXCEPT !.pc = "done", !.wOrders = {}, !.wItems = <<>>, !.wStock = {},
                 !.product = NoProduct, !.i = 1, !.total = Num(0),
                 !.response = response]

\* catch (e): c.json({success: false, message: e.message}, 400)
CatchStatus(error) == 400

Failed(call, message, error) ==
    Answered(call, [status |-> CatchStatus(error), success |-> FALSE, orderId |-> 0,
                    total |-> ToJson(Num(0)), message |-> message, error |-> error])

(* ---------------- users, tokens, catalog ---------------- *)

\* process.env.JWT_SECRET
Secret == "JWT_SECRET"

\* bcrypt.hashSync(password, salt) and bcrypt.compareSync(password, hash)
Hash(pw) == <<"bcrypt", pw>>
CompareSync(pw, hash) == hash = Hash(pw)

\* jwt.sign({id, role}, key) and jwt.verify(token, key)
Sign(user, key) == [id |-> user.id, role |-> user.role, key |-> key]
Verify(token, key) == token.key = key

NoToken == [id |-> 0, role |-> "", key |-> ""]

\* a token signed with another key
ForgedToken == [id |-> 1, role |-> "admin", key |-> "other"]

\* the row seed() inserts
SeedAdmin == [id |-> 1, username |-> "admin", password |-> Hash("admin123"),
              role |-> "admin"]

\* a row inserted without a role: the column's default is 'customer'
Customer == [id |-> 2, username |-> "siti", password |-> Hash("siti123"),
             role |-> "customer"]

\* db.query.users.findFirst({where: eq(users.username, u)})
FindUser(table, u) == {x \in table : x.username = u}

\* a users table without the unique index on username
UsernameTakenNever(table, u) == FALSE

\* the unique index on users.username, checked by INSERT
UsernameTaken(table, u) == \E x \in table : x.username = u

IdleReg == [pc |-> "idle", username |-> "", password |-> "", status |-> 0]

NoLogin == [status |-> 0, token |-> NoToken]

NoHeader == [kind |-> "none", token |-> NoToken]
Bearer(t) == [kind |-> "bearer", token |-> t]

NoUpload == [auth |-> NoHeader, status |-> 0, id |-> 0]

\* the row POST /api/products inserts: name, price and parseInt(stock) of the body
NewProduct == [name |-> "baru", price |-> 500, stock |-> 1]

(* ---------------- initial state ---------------- *)

InitCheckout ==
    /\ variant \in Variants
    /\ products = [p \in ProductIds |->
                     [name |-> ProductNames[p], price |-> ProductPrices[p],
                      stock |-> ProductStocks[p]]]
    /\ stock0 = [p \in ProductIds |-> products[p].stock]
    /\ orders = {}
    /\ orderItems = <<>>
    /\ orderSeq = 0
    /\ calls = [c \in Calls |-> IdleCall]

InitAuthWith(table) ==
    /\ users = table
    /\ userSeq = Cardinality(table)
    /\ tokens = {}
    /\ login = NoLogin
    /\ regs = [r \in Regs |-> IdleReg]
    /\ productSeq = Cardinality(ProductIds)
    /\ images = 0
    /\ upload = NoUpload
    /\ listing = <<>>

\* the seeded database
Init == InitCheckout /\ InitAuthWith({SeedAdmin})

\* the seeded database, with or without a user of the default role
InitAuth == InitCheckout /\ \E table \in {{SeedAdmin}, {SeedAdmin, Customer}} : InitAuthWith(table)

(* ---------------- POST /api/orders ---------------- *)

\* c.req.json(); BEGIN; insert into orders ... returning
BeginOrder(c, items) ==
    /\ calls[c].pc = "idle"
    /\ \A d \in Calls : d < c => calls[d].pc # "idle"
    /\ orderSeq' = orderSeq + 1
    /\ calls' = [calls EXCEPT ![c] =
         [@ EXCEPT !.pc = "find", !.items = items, !.i = 1, !.total = Num(0),
                   !.newOrder = orderSeq + 1,
                   !.wOrders = {[id |-> orderSeq + 1, totalAmount |-> Num(0),
                                 status |-> "pending"]}]]
    /\ UNCHANGED <<authVars, variant, products, stock0, orders, orderItems>>

\* findFirst for the next item, the stock check, total += ...
FindProduct(c) ==
    /\ calls[c].pc = "find"
    /\ calls[c].i <= Len(calls[c].items)
    /\ LET item == calls[c].items[calls[c].i]
           product == TxRead(c, item.productId)
           seen == [calls[c] EXCEPT !.reads = Append(@, product)]
       IN IF StockCheckFails(product, item)
          THEN LET st == RollbackStore(Store, seen)
               IN /\ calls' = [calls EXCEPT ![c] =
                                  Failed(seen, StockMessage(variant, product), "stock")]
                  /\ products' = st.products
                  /\ orders' = st.orders
                  /\ orderItems' = st.orderItems
          ELSE /\ calls' = [calls EXCEPT ![c] =
                    [seen EXCEPT !.pc = "item", !.product = product,
                                 !.total = JsAdd(@, ItemAmount(variant, product, item))]]
               /\ UNCHANGED <<products, orders, orderItems>>
    /\ UNCHANGED <<authVars, variant, stock0, orderSeq>>

\* insert into order_items
\* the insert taking priceAtTime from the request's item
InsertItemClientPrice(c) ==
    /\ calls[c].pc = "item"
    /\ LET item == calls[c].items[calls[c].i]
       IN calls' = [calls EXCEPT ![c] =
            [@ EXCEPT !.pc = "stock",
                      !.wItems = Append(@, [orderId |-> calls[c].newOrder,
                                            productId |-> item.productId,
                                            quantity |-> item.quantity,
                                            priceAtTime |-> item.price])]]
    /\ UNCHANGED <<authVars, variant, products, stock0, orders, orderItems, orderSeq>>

\* tx.insert(schema.orderItems): quantity and the price read from the product
InsertItem(c) ==
    /\ calls[c].pc = "item"
    /\ LET item == calls[c].items[calls[c].i]
       IN calls' = [calls EXCEPT ![c] =
            [@ EXCEPT !.pc = "stock",
                      !.wItems = Append(@, [orderId |-> calls[c].newOrder,
                                            productId |-> item.productId,
                                            quantity |-> item.quantity,
                                            priceAtTime |-> calls[c].product.price])]]
    /\ UNCHANGED <<authVars, variant, products, stock0, orders, orderItems, orderSeq>>

\* update products set stock = ... where id = ...; waits for the row lock
UpdateStock(c) ==
    /\ calls[c].pc = "stock"
    /\ LET item == calls[c].items[calls[c].i]
           p == item.productId
       IN /\ ~LockedByOther(c, p)
          /\ calls' = [calls EXCEPT ![c] =
               [@ EXCEPT !.pc = "find", !.i = @ + 1, !.product = NoProduct,
                         !.wStock = {w \in @ : w[1] # p}
                                    \cup {<<p, NewStock(calls[c].product, item)>>}]]
    /\ UNCHANGED <<authVars, variant, products, stock0, orders, orderItems, orderSeq>>

\* the total written inside the item loop, before the items are done
UpdateTotalEarly(c) ==
    /\ calls[c].pc = "find"
    /\ calls' = [calls EXCEPT ![c] =
         [@ EXCEPT !.pc = "commit",
                   !.wOrders = {[o EXCEPT !.totalAmount = ToNumeric(calls[c].total)]
                                : o \in @}]]
    /\ UNCHANGED <<authVars, variant, products, stock0, orders, orderItems, orderSeq>>

\* update orders set total_amount = total.toString() where id = newOrder.id
UpdateTotal(c) ==
    /\ calls[c].pc = "find"
    /\ calls[c].i > Len(calls[c].items)
    /\ calls' = [calls EXCEPT ![c] =
         [@ EXCEPT !.pc = "commit",
                   !.wOrders = {[o EXCEPT !.totalAmount = ToNumeric(calls[c].total)]
                                : o \in @}]]
    /\ UNCHANGED <<authVars, variant, products, stock0, orders, orderItems, orderSeq>>

\* COMMIT, then c.json({success: true, ...result})
Commit(c) ==
    /\ calls[c].pc = "commit"
    /\ LET st == CommitStore(Store, calls[c])
       IN /\ products' = st.products
          /\ orders' = st.orders
          /\ orderItems' = st.orderItems
    /\ calls' = [calls EXCEPT ![c] =
         Answered(@, [status |-> 200, success |-> TRUE,
                      orderId |-> calls[c].newOrder,
                      total |-> ToJson(calls[c].total),
                      message |-> <<>>, error |-> "none"])]
    /\ UNCHANGED <<authVars, variant, stock0, orderSeq>>

\* the transaction is rolled back and the handler's catch (e) answers
Abort(c, message, error) ==
    /\ LET st == RollbackStore(Store, calls[c])
       IN /\ products' = st.products
          /\ orders' = st.orders
          /\ orderItems' = st.orderItems
    /\ calls' = [calls EXCEPT ![c] = Failed(@, message, error)]
    /\ UNCHANGED <<authVars, variant, stock0, orderSeq>>

\* a statement or COMMIT rejected by the storage (connection loss, conflict):
\* the promise rejects inside db.transaction
StorageFailure(c) ==
    /\ Active(c)
    /\ Abort(c, <<"storage error">>, "storage")

\* c waits in UPDATE for a row lock d holds
WaitsFor(c, d) ==
    /\ c # d
    /\ calls[c].pc = "stock"
    /\ Active(d)
    /\ calls[c].items[calls[c].i].productId \in Written(d)

\* a database that never looks for wait cycles
ReachesNever(c, d, n) == FALSE

RECURSIVE Reaches(_, _, _)
Reaches(c, d, n) ==
    \/ WaitsFor(c, d)
    \/ n > 0 /\ \E e \in Calls : WaitsFor(c, e) /\ Reaches(e, d, n - 1)

\* PostgreSQL's deadlock detector aborts a transaction of a wait cycle
DeadlockDetected(c) ==
    /\ Reaches(c, c, NumCalls)
    /\ Abort(c, <<"deadlock detected">>, "deadlock")

Next ==
    \/ \E c \in Calls, items \in Requests : BeginOrder(c, items)
    \/ \E c \in Calls : FindProduct(c)
    \/ \E c \in Calls : InsertItem(c)
    \/ \E c \in Calls : UpdateStock(c)
    \/ \E c \in Calls : UpdateTotal(c)
    \/ \E c \in Calls : Commit(c)
    \/ \E c \in Calls : StorageFailure(c)
    \/ \E c \in Calls : DeadlockDetected(c)

Spec == Init /\ [][Next]_vars

\* a handler continues when the statement it awaits is answered, the database
\* answers every statement that does not wait for a lock, and its deadlock
\* detector runs whenever a lock wait lasts
Step(c) ==
    FindProduct(c) \/ InsertItem(c) \/ UpdateStock(c) \/ UpdateTotal(c) \/ Commit(c)

FairSpec ==
    /\ Spec
    /\ \A c \in Calls : WF_vars(Step(c))
    /\ \A c \in Calls : WF_vars(DeadlockDetected(c))

(* ---------------- the other endpoints ---------------- *)

checkoutVars == <<stock0, orders, orderItems, orderSeq, calls>>

\* POST /api/register up to the existence check (only drizzle.config.js has it)
RegisterFind(r, u, pw) ==
    /\ variant = "drizzle.config.js"
    /\ regs[r].pc = "idle"
    /\ \A q \in Regs : q < r => regs[q].pc # "idle"
    /\ regs' = [regs EXCEPT ![r] =
         IF FindUser(users, u) # {}
         THEN [pc |-> "done", username |-> u, password |-> pw, status |-> 400]
         ELSE [pc |-> "insert", username |-> u, password |-> pw, status |-> 0]]
    /\ UNCHANGED <<variant, products, checkoutVars, users, userSeq, tokens, login,
                   productSeq, images, upload, listing>>

\* hashSync, db.insert(schema.users): a unique violation is answered 500
RegisterInsert(r) ==
    /\ regs[r].pc = "insert"
    /\ userSeq' = userSeq + 1
    /\ IF UsernameTaken(users, regs[r].username)
       THEN /\ regs' = [regs EXCEPT ![r] = [@ EXCEPT !.pc = "done", !.status = 500]]
            /\ UNCHANGED users
       ELSE /\ users' = users \cup {[id |-> userSeq + 1,
                                      username |-> regs[r].username,
                                      password |-> Hash(regs[r].password),
                                      role |-> "admin"]}
            /\ regs' = [regs EXCEPT ![r] = [@ EXCEPT !.pc = "done", !.status = 200]]
    /\ UNCHANGED <<variant, products, checkoutVars, tokens, login,
                   productSeq, images, upload, listing>>

\* POST /api/login
Login(u, pw) ==
    /\ LET found == FindUser(users, u)
       IN IF found = {} \/ \A x \in found : ~CompareSync(pw, x.password)
          THEN /\ login' = [status |-> 401, token |-> NoToken]
               /\ UNCHANGED tokens
          ELSE LET user == CHOOSE x \in found : TRUE
                   token == Sign(user, Secret)
               IN /\ login' = [status |-> 200, token |-> token]
                  /\ tokens' = tokens \cup {token}
    /\ UNCHANGED <<variant, products, checkoutVars, users, userSeq, regs,
                   productSeq, images, upload, listing>>

\* the Authorization headers a client can send
Headers == {NoHeader, Bearer(ForgedToken)} \cup {Bearer(t) : t \in tokens}

\* authMiddleware: 0 when the request goes on to the handler
AuthStatus(h) ==
    IF h.kind = "none" THEN 401
    ELSE IF ~Verify(h.token, Secret) THEN 403
    ELSE 0

\* POST /api/products: authMiddleware, image check, storage upload, insert
Upload(h, image, stored, inserted) ==
    /\ images < MaxUploads
    /\ IF AuthStatus(h) # 0
       THEN /\ upload' = [auth |-> h, status |-> AuthStatus(h), id |-> 0]
            /\ UNCHANGED <<images, productSeq, products>>
       ELSE IF ~image
       THEN /\ upload' = [auth |-> h, status |-> 400, id |-> 0]
            /\ UNCHANGED <<images, productSeq, products>>
       ELSE IF ~stored
       THEN /\ upload' = [auth |-> h, status |-> 500, id |-> 0]
            /\ UNCHANGED <<images, productSeq, products>>
       ELSE IF ~inserted
       THEN /\ upload' = [auth |-> h, status |-> 500, id |-> 0]
            /\ images' = images + 1
            /\ UNCHANGED <<productSeq, products>>
       ELSE /\ upload' = [auth |-> h, status |-> 200, id |-> productSeq + 1]
            /\ images' = images + 1
            /\ productSeq' = productSeq + 1
            /\ products' = [p \in DOMAIN products \cup {productSeq + 1} |->
                              IF p \in DOMAIN products THEN products[p] ELSE NewProduct]
    /\ UNCHANGED <<variant, checkoutVars, users, userSeq, tokens, login, regs, listing>>

\* the rows of products by id, largest first
RECURSIVE ByIdDesc(_, _)
ByIdDesc(rows, ids) ==
    IF ids = {} THEN <<>>
    ELSE LET top == CHOOSE p \in ids : \A q \in ids : q <= p
         IN <<[id |-> top, name |-> rows[top].name, price |-> rows[top].price,
               stock |-> rows[top].stock]>> \o ByIdDesc(rows, ids \ {top})

\* GET /api/products
ListProducts ==
    /\ listing' = ByIdDesc(products, DOMAIN products)
    /\ UNCHANGED <<variant, products, checkoutVars, users, userSeq, tokens, login,
                   regs, productSeq, images, upload>>

NextAuth ==
    \/ \E r \in Regs, reg \in Registrations : RegisterFind(r, reg[1], reg[2])
    \/ \E r \in Regs : RegisterInsert(r)
    \/ \E cr \in Credentials : Login(cr[1], cr[2])
    \/ \E h \in Headers : \E image, stored, inserted \in BOOLEAN : Upload(h, image, stored, inserted)
    \/ ListProducts

\* register, login, upload and listing on the seeded database
SpecAuth == InitAuth /\ [][NextAuth]_vars

NextShop ==
    \/ \E c \in Calls, items \in ShopRequests : BeginOrder(c, items)
    \/ \E c \in Calls : FindProduct(c)
    \/ \E c \in Calls : InsertItem(c)
    \/ \E c \in Calls : UpdateStock(c)
    \/ \E c \in Calls : UpdateTotal(c)
    \/ \E c \in Calls : Commit(c)
    \/ \E c \in Calls : StorageFailure(c)
    \/ \E c \in Calls : DeadlockDetected(c)
    \/ RegisterFind(1, "budi", "budi123")
    \/ RegisterInsert(1)
    \/ Login("admin", "admin123")
    \/ \E h \in Headers : Upload(h, TRUE, TRUE, TRUE)
    \/ ListProducts

\* every endpoint together, on the seeded database
SpecShop == Init /\ [][NextShop]_vars

(* ---------------- vocabulary of the properties ---------------- *)

Done(c) == calls[c].pc = "done"
Succeeded(c) == Done(c) /\ calls[c].response.success
StockFailed(c) == Done(c) /\ calls[c].response.error = "stock"
StorageFailed(c) == Done(c) /\ calls[c].response.error \in {"storage", "deadlock"}

\* what a request asks for, without the fields the client may add
Asked(c) == [k \in DOMAIN calls[c].items |->
               <<calls[c].items[k].productId, calls[c].items[k].quantity>>]
ClientPrice(c) == {calls[c].items[k].price : k \in DOMAIN calls[c].items}

\* the committed rows of one order
OrderRows(id) == {o \in orders : o.id = id}
ItemsOf(id) == SelectSeq(orderItems, LAMBDA r : r.orderId = id)
NoRowsOf(id) == OrderRows(id) = {} /\ ItemsOf(id) = <<>>

\* order_items rows without the order they belong to
Bare(rows) == [k \in DOMAIN rows |->
                 <<rows[k].productId, rows[k].quantity, rows[k].priceAtTime>>]

RECURSIVE SumAmount(_)
SumAmount(rows) ==
    IF rows = <<>> THEN 0
    ELSE Head(rows).priceAtTime * Head(rows).quantity + SumAmount(Tail(rows))

RECURSIVE SumQuantity(_, _)
SumQuantity(rows, p) ==
    IF rows = <<>> THEN 0
    ELSE (IF Head(rows).productId = p THEN Head(rows).quantity ELSE 0)
         + SumQuantity(Tail(rows), p)

(* ---------------- C1 ---------------- *)

\* C1: two calls that each ask for the whole stock of the same single-stock
\* product, and are not stopped by the storage, end with exactly one success
\* and one stock failure.
C1_ExactlyOneSuccess ==
    \A c, d \in Calls, p \in ProductIds :
        ( /\ c # d
          /\ stock0[p] = 1
          /\ Asked(c) = << <<p, stock0[p]>> >>
          /\ Asked(d) = << <<p, stock0[p]>> >>
          /\ Done(c) /\ ~StorageFailed(c)
          /\ Done(d) /\ ~StorageFailed(d) )
        => \/ Succeeded(c) /\ StockFailed(d)
           \/ Succeeded(d) /\ StockFailed(c)

(* ---------------- C2 ---------------- *)

C2_NoRows == \A c \in Calls : StockFailed(c) => NoRowsOf(calls[c].newOrder)

C2_Step ==
    /\ \A c \in Calls :
          (~Done(c) /\ calls'[c].pc = "done" /\ calls'[c].response.error = "stock")
          => Store' = Store
    /\ Store' # Store =>
          \E c \in Calls :
              /\ calls[c].pc = "commit" /\ calls'[c].response.success
              /\ \A p \in ProductIds :
                    products'[p] # products[p] =>
                        \E k \in DOMAIN calls[c].items : calls[c].items[k].productId = p
              /\ \A o \in orders' \ orders : o.id = calls[c].newOrder
              /\ \A k \in DOMAIN orderItems' :
                    k > Len(orderItems) => orderItems'[k].orderId = calls[c].newOrder
              /\ SubSeq(orderItems', 1, Len(orderItems)) = orderItems

\* C2: the step in which a call answers with a stock failure (stock < quantity
\* or no such product) leaves products, orders and order_items exactly as
\* they were; no row of its order is ever committed; and the committed tables
\* change only in the commit of a call that answers success, by that call's
\* own rows.
C2_FailedOrderLeavesNothing == []C2_NoRows /\ [][C2_Step]_vars

\* a call failed on its second item, after the first item's insert and update
C2_Witness == \E c \in Calls : StockFailed(c) /\ Len(calls[c].reads) = 2

(* ---------------- C3 ---------------- *)

\* C3: every product's stock, committed or written by an open transaction,
\* is >= 0.
C3_StockNonNegative ==
    /\ \A p \in ProductIds : products[p].stock >= 0
    /\ \A c \in Calls : \A w \in calls[c].wStock : w[2] >= 0

\* two calls that raced for the last unit have both committed
C3_Witness ==
    \E c, d \in Calls :
        /\ c # d /\ Succeeded(c) /\ Succeeded(d)
        /\ Asked(c) = << <<2, 1>> >> /\ Asked(d) = << <<2, 1>> >>
        /\ products[2].stock = 0

(* ---------------- C4 ---------------- *)

\* C4: for every product, initial stock minus committed stock equals the sum
\* of the quantities of the committed order items for it.
C4_Conservation ==
    \A p \in ProductIds :
        stock0[p] - products[p].stock = SumQuantity(orderItems, p)

(* ---------------- C5 ---------------- *)

\* C5: the total a successful call returns, and the totalAmount of its
\* committed order, equal the sum of priceAtTime x quantity of its order items.
C5_TotalIsSum ==
    \A c \in Calls :
        Succeeded(c) =>
            LET sum == SumAmount(ItemsOf(calls[c].response.orderId))
            IN /\ calls[c].response.total = ToJson(Num(sum))
               /\ \A o \in OrderRows(calls[c].response.orderId) :
                     o.totalAmount = Num(sum)

(* ---------------- C6 ---------------- *)

\* C6: a request with an empty items list is not answered with success and
\* no order row of it is committed.
C6_EmptyRejected ==
    \A c \in Calls :
        (Done(c) /\ calls[c].items = <<>>) =>
            ~calls[c].response.success /\ NoRowsOf(calls[c].newOrder)

(* ---------------- C7 ---------------- *)

\* C7: a request with an item of quantity <= 0 commits no order and no order
\* item, changes no stock and is not answered with success.
C7_NonPositiveRejected ==
    \A c \in Calls :
        (Done(c) /\ \E k \in DOMAIN calls[c].items : calls[c].items[k].quantity <= 0)
        => ~calls[c].response.success /\ NoRowsOf(calls[c].newOrder)

(* ---------------- C8 ---------------- *)

\* two calls asked for the same products and quantities and read the same rows
SameCase(c, d) ==
    /\ c # d
    /\ Asked(c) = Asked(d)
    /\ calls[c].reads = calls[d].reads

\* C8: two calls that ask for the same products and quantities and read the
\* same product rows, whatever price the client sent, compute the same total,
\* the same order items and the same stock writes, and (unless the storage
\* stops one) give the same answer and commit the same order items and total.
C8_PriceAuthority ==
    \A c, d \in Calls :
        SameCase(c, d) =>
            /\ (calls[c].pc = "commit" /\ calls[d].pc = "commit") =>
                   /\ calls[c].total = calls[d].total
                   /\ Bare(calls[c].wItems) = Bare(calls[d].wItems)
                   /\ calls[c].wStock = calls[d].wStock
            /\ (Done(c) /\ Done(d) /\ ~StorageFailed(c) /\ ~StorageFailed(d)) =>
                   /\ calls[c].response.success = calls[d].response.success
                   /\ calls[c].response.total = calls[d].response.total
                   /\ calls[c].response.message = calls[d].response.message
                   /\ Bare(ItemsOf(calls[c].newOrder)) = Bare(ItemsOf(calls[d].newOrder))
                   /\ {o.totalAmount : o \in OrderRows(calls[c].newOrder)}
                      = {o.totalAmount : o \in OrderRows(calls[d].newOrder)}

\* two successful calls, one with a forged price, from the same rows read
C8_Witness ==
    \E c, d \in Calls :
        /\ SameCase(c, d)
        /\ ClientPrice(c) = {0} /\ ClientPrice(d) = {1}
        /\ Succeeded(c) /\ Succeeded(d)
        /\ \E k \in DOMAIN calls[c].items : calls[c].items[k].quantity > 0

(* ---------------- C9 ---------------- *)

\* C9: a call stopped by the storage leaves no row and is answered with a
\* 500-class status, not the 400 of the business-rule failures.
C9_StorageFailureIs500 ==
    \A c \in Calls :
        StorageFailed(c) =>
            /\ NoRowsOf(calls[c].newOrder)
            /\ calls[c].response.status >= 500
            /\ \A d \in Calls : StockFailed(d) =>
                  calls[d].response.status # calls[c].response.status

(* ---------------- C10 ---------------- *)

\* C10: with p1 at stock 5 and price 10.00, a first order of 3 x p1 succeeds
\* with total 30.00 and leaves stock 2; a later order of 3 x p1, which finds
\* stock 2, fails on stock and leaves stock 2 and the orders and order items
\* of the first.
C10_Scenario ==
    \A c, d \in Calls :
        ( /\ c # d
          /\ stock0[1] = 5 /\ products[1].price = 1000
          /\ Asked(c) = << <<1, 3>> >>
          /\ Succeeded(c)
          /\ \A e \in Calls \ {c, d} : calls[e].pc = "idle" )
        => /\ calls[d].pc = "idle" =>
                /\ calls[c].response.total = ToJson(Num(3000))
                /\ products[1].stock = 2
           /\ ( /\ Asked(d) = << <<1, 3>> >>
                /\ Done(d) /\ ~StorageFailed(d)
                /\ calls[d].newOrder > calls[c].newOrder
                /\ calls[d].reads = <<[found |-> TRUE, name |-> "p1",
                                       price |-> 1000, stock |-> 2]>> )
              => /\ StockFailed(d)
                 /\ products[1].stock = 2
                 /\ {o.id : o \in orders} = {calls[c].newOrder}
                 /\ Bare(orderItems) = << <<1, 3, 1000>> >>

(* ---------------- C11 ---------------- *)

\* the call asks for the same product twice, with positive quantities
Twice(c, p, q1, q2) ==
    /\ Asked(c) = << <<p, q1>>, <<p, q2>> >>
    /\ q1 > 0 /\ q2 > 0

C11_Result ==
    \A c \in Calls, p \in ProductIds, q1, q2 \in 1..3 :
        (Twice(c, p, q1, q2) /\ calls[c].reads # <<>>) =>
            LET s == calls[c].reads[1].stock
            IN /\ Len(calls[c].reads) = 2 => calls[c].reads[2].stock = s - q1
               /\ (Done(c) /\ ~StorageFailed(c)) =>
                     /\ Succeeded(c) <=> s >= q1 + q2
                     /\ Succeeded(c) => Len(ItemsOf(calls[c].newOrder)) = 2
                     /\ ~Succeeded(c) => NoRowsOf(calls[c].newOrder)

C11_Step ==
    \A c \in Calls, p \in ProductIds, q1, q2 \in 1..3 :
        (Twice(c, p, q1, q2) /\ ~Done(c) /\ calls'[c].pc = "done") =>
            IF calls'[c].response.success
            THEN products'[p].stock = calls[c].reads[1].stock - (q1 + q2)
            ELSE Store' = Store

\* C11: a call that lists one product twice, with quantities q1 then q2, and
\* read stock s for the first item, reads s - q1 for the second; unless the
\* storage stops it, it succeeds exactly when s >= q1 + q2, then committing
\* stock s - (q1 + q2) and two order items, and otherwise fails leaving the
\* tables as they were.
C11_DuplicateProduct == []C11_Result /\ [][C11_Step]_vars

\* 3 then 1 of product 1 out of 5 went through; 3 then 3 was refused
C11_Witness ==
    \E c, d \in Calls :
        /\ Asked(c) = << <<1, 3>>, <<1, 1>> >> /\ Succeeded(c)
        /\ calls[c].reads[1].stock = 5 /\ products[1].stock = 1
        /\ Asked(d) = << <<1, 3>>, <<1, 3>> >> /\ StockFailed(d)
        /\ Len(calls[d].reads) = 2

(* ---------------- C12 ---------------- *)

\* C12: every call that has begun eventually answers, and a call that has
\* answered holds no row lock.
C12_Terminates ==
    /\ \A c \in Calls : (calls[c].pc # "idle") ~> Done(c)
    /\ [](\A c \in Calls : Done(c) => Written(c) = {} /\ ~Active(c))

\* two calls took products 1 and 2 in opposite order; the detector stopped
\* one and the other committed
C12_Witness ==
    \E c, d \in Calls :
        /\ Asked(c) = << <<1, 1>>, <<2, 1>> >>
        /\ Asked(d) = << <<2, 1>>, <<1, 1>> >>
        /\ Done(c) /\ Done(d)
        /\ "deadlock" \in {calls[c].response.error, calls[d].response.error}
        /\ Succeeded(c) \/ Succeeded(d)

(* ---------------- C13 ---------------- *)

AllOrderRows == orders \cup UNION {calls[c].wOrders : c \in Calls}

C13_Rows ==
    /\ \A o \in AllOrderRows : o.status = "pending"
    /\ \A c \in Calls :
          /\ Cardinality(calls[c].wOrders) <= 1
          /\ Active(c) => Cardinality(calls[c].wOrders) = 1
          /\ \A o \in calls[c].wOrders : o.id = calls[c].newOrder
          /\ Succeeded(c) => Cardinality(OrderRows(calls[c].newOrder)) = 1
          /\ \A d \in Calls \ {c} :
                calls[c].newOrder # 0 => calls[c].newOrder # calls[d].newOrder
          \* before the total is written the order's total is 0
          /\ calls[c].pc \in {"find", "item", "stock"} =>
                \A o \in calls[c].wOrders : o.totalAmount = Num(0)

C13_Step ==
    \A c \in Calls :
        \* the order row is created by the first statement, before any item
        /\ (calls[c].wOrders = {} /\ calls'[c].wOrders # {}) =>
              /\ calls[c].pc = "idle"
              /\ calls'[c].reads = <<>> /\ calls'[c].wItems = <<>>
              /\ calls'[c].wStock = {}
              /\ calls'[c].wOrders = {[id |-> calls'[c].newOrder,
                                       totalAmount |-> Num(0), status |-> "pending"]}
        \* the total is written by one step, after the last item's stock update
        /\ (calls[c].pc # "commit" /\ calls'[c].pc = "commit") =>
              /\ calls[c].pc = "find"
              /\ Len(calls[c].reads) = Len(calls[c].items)
              /\ Len(calls[c].wItems) = Len(calls[c].items)
              /\ \A k \in DOMAIN calls[c].items :
                    calls[c].items[k].productId \in Written(c)
              /\ calls'[c].wOrders = {[id |-> calls[c].newOrder,
                                       totalAmount |-> ToNumeric(calls[c].total),
                                       status |-> "pending"]}
        \* no other step writes the order row; the call's end takes it away
        /\ (calls[c].wOrders # {} /\ calls'[c].wOrders # calls[c].wOrders) =>
              \/ calls[c].pc = "find" /\ calls'[c].pc = "commit"
              \/ calls'[c].pc = "done" /\ calls'[c].wOrders = {}
        /\ calls[c].pc = "commit" => calls'[c].pc \in {"commit", "done"}

\* C13: a call inserts one order row, with totalAmount 0 and status pending,
\* before it reads any product; the row's totalAmount is written by one
\* later step, taken once, after every item was checked, inserted and
\* decremented; every order row has status pending.
C13_OrderWrittenOnceThenTotal == []C13_Rows /\ [][C13_Step]_vars

\* a two-item order is committed with its total
C13_Witness ==
    \E c \in Calls :
        /\ Succeeded(c) /\ Len(calls[c].items) = 2
        /\ \E o \in OrderRows(calls[c].newOrder) :
              o.status = "pending" /\ o.totalAmount = Num(1250)

(* ---------------- C14 ---------------- *)

\* C14: the message of a stock failure names the product read by its stored
\* name, and names no product "undefined" or "" when there is no such product.
C14_MessageNamesProduct ==
    \A c \in Calls :
        StockFailed(c) =>
            LET r == calls[c].reads[Len(calls[c].reads)]
                named == calls[c].response.message[2]
            IN /\ r.found => named = r.name
               /\ ~r.found => named \notin {"undefined", ""}

(* ---------------- C15 ---------------- *)

\* the committed order_items of a successful call are its items, in order,
\* each with the price its checkout read from the product
C15_Snapshot ==
    \A c \in Calls :
        Succeeded(c) =>
            LET rows == ItemsOf(calls[c].newOrder)
            IN /\ Len(rows) = Len(calls[c].items)
               /\ Len(calls[c].reads) = Len(calls[c].items)
               /\ \A k \in DOMAIN rows :
                     /\ rows[k].orderId = calls[c].newOrder
                     /\ rows[k].productId = calls[c].items[k].productId
                     /\ rows[k].quantity = calls[c].items[k].quantity
                     /\ rows[k].priceAtTime = calls[c].reads[k].price

\* no step changes or deletes a committed order_items row
C15_Step ==
    /\ Len(orderItems') >= Len(orderItems)
    /\ \A k \in DOMAIN orderItems : orderItems'[k] = orderItems[k]

\* C15: a committed order item is never changed or deleted by a later order,
\* upload, listing, login or register, and its priceAtTime is the stored
\* price read by the checkout that created it.
C15_OrderItemsImmutable == []C15_Snapshot /\ [][C15_Step]_vars

\* an order committed with the stored price against a request naming another
\* price, and afterwards a second order, an upload, a listing, a login and a
\* registration
C15_Witness ==
    /\ \E c, d \in Calls :
          /\ c # d /\ Succeeded(c) /\ Succeeded(d)
          /\ calls[c].items = <<Line(1, 3, 1)>>
          /\ calls[c].newOrder < calls[d].newOrder
          /\ Bare(ItemsOf(calls[c].newOrder)) = << <<1, 3, 1000>> >>
    /\ upload.status = 200 /\ upload.id \in DOMAIN products
    /\ listing # <<>> /\ Len(listing) = 3
    /\ login.status = 200
    /\ \E x \in users : x.username = "budi"

(* ---------------- C16 ---------------- *)

\* C16: a request to POST /api/products that inserted a product carried a
\* bearer token that verifies against the server secret and that login issued
\* to a user whose role is admin.
C16_AdminOnly ==
    upload.status = 200 =>
        /\ upload.auth.kind = "bearer"
        /\ Verify(upload.auth.token, Secret)
        /\ upload.auth.token \in tokens
        /\ upload.auth.token.role = "admin"

(* ---------------- C17 ---------------- *)

\* C17: at most one users row per username, and of the registrations of one
\* username at most one is answered with success.
C17_OneRowPerUsername ==
    /\ \A x, y \in users : x.username = y.username => x = y
    /\ \A r, q \in Regs :
          (r # q /\ regs[r].username = regs[q].username)
              => ~(regs[r].status = 200 /\ regs[q].status = 200)

\* two registrations of the new username whose existence checks both found
\* no user: one inserted the row, the other's insert hit the unique index
C17_Witness ==
    \E r, q \in Regs :
        /\ regs[r].username = "budi" /\ regs[q].username = "budi"
        /\ regs[r].status = 200 /\ regs[q].status = 500
        /\ Cardinality(FindUser(users, "budi")) = 1

====
